---- MODULE Spec2Model ----
(***************************************************************************)
(* photowall (main.go v1.5.0): the download/cache pipeline of one or more  *)
(* runs on the same data directory, and the pure layout arithmetic.        *)
(*                                                                         *)
(* A media item is a pointer p in 1..Len(desc) to a record with the fields *)
(* ID, Width and Height; its cache file is PathOf(p), named after its ID.  *)
(* A file on disk is absent, a directory, a complete JPEG of some width x  *)
(* height, or partial (created/truncated, not fully encoded, hence         *)
(* undecodable).                                                           *)
(***************************************************************************)
EXTENDS Integers, Sequences, FiniteSets, TLC

\* ------------------------------------------------------------------ bounds
MaxItems == 2
MaxRuns == 2
\* pure functions
MaxSide == 8
MaxEdge == 3
MaxGridItems == 12
MaxGridCols == 10
MaxRowItems == 3
MaxCols == 2
MaxSpacing == 1
MaxCanvas == 6
MaxPattern == 4
MaxLimit == 21
MaxResponse == 21

\* ------------------------------------------------------------------ helpers
\* Go's integer division truncates toward zero.
GoDiv(a, b) == IF a >= 0 THEN a \div b ELSE -((-a) \div b)

\* Mutant: rounds up also when b divides a.
ceilIntDivision_OffByOne(a, b) == 1 + GoDiv(a, b)

ceilIntDivision(a, b) == 1 + GoDiv(a - 1, b)

minInt(a, b) == IF a < b THEN a ELSE b

SetMin(S) == CHOOSE x \in S : \A y \in S : x <= y

\* ------------------------------------------------------------------ files
Absent == [kind |-> "absent", w |-> 0, h |-> 0]
Partial == [kind |-> "partial", w |-> 0, h |-> 0]
Jpeg(w, h) == [kind |-> "jpeg", w |-> w, h |-> h]
Dir == [kind |-> "dir", w |-> 0, h |-> 0]

\* Dimensions of descriptors, remote bitmaps and pre-existing cache entries.
Dims == {<<2, 2>>, <<3, 2>>}

Name(p) == <<"img", p>>
StaleName == <<"img", 0>>
Wallpaper(t) == <<"wallpaper", t>>
Names == {Name(p) : p \in 0..MaxItems} \cup {Wallpaper(t) : t \in 0..MaxRuns}

\* Mutant: only image files are listed.
Present_OnlyImages(d) == {f \in Names : d[f].kind \notin {"absent", "dir"} /\ f[1] = "img"}

\* The regular files of the cache directory (ReadDir entries that are not
\* directories).
Present(d) == {f \in Names : d[f].kind \notin {"absent", "dir"}}

\* Platform builds of systemUpdate.
Builds == {"osx", "lnx_gnome3"}

\* ------------------------------------------------------------------ state
VARIABLES
    run,          \* number of the current run on this data directory
    now,          \* Unix second at which the current process started
    flagSquare,   \* -square flag, as given on the command line
    onlySquare,   \* api.SupportsOnlySquareImages()
    squareTiles,  \* the global squareTiles: the tile mode in use
    build,        \* build tag that selected the systemUpdate implementation
    setWallpaper, \* -set flag
    setLockScreen,\* -set-lockscreen flag (lnx_gnome3 build only)
    desc,         \* what the source returns: sequence of [ID, Width, Height]
    pc,           \* position of main
    items,        \* main's slice (backing array) of item pointers
    item,         \* item pointer -> its current Width/Height
    cache,        \* downloadImages: names found cached and not yet claimed
    spawnIdx,     \* downloadImages: index of the spawn loop
    cached,       \* goroutine argument
    tpc,          \* position of each download goroutine
    img,          \* decoded (and cropped) bitmap held by a goroutine
    failedItems,  \* downloadImages: mutex-guarded failure list
    mutex,        \* downloadImages: the goroutine holding the mutex, 0 when unlocked
    seen,         \* failedItems as read by a goroutine for its append
    disk,         \* cache directory: name -> file
    fetches,      \* history: network fetches per item in this run
    laidOut,      \* history: items drawn by the layout loop, in order
    removed,      \* history: stale files removed in this run
    unremoved,    \* history: stale files whose removal failed in this run
    conform,      \* history: every bitmap fetched so far in this run matched its descriptor
    prevFull,     \* history: the previous run ended "done" with no failed download
    prevConform,  \* history: conform of the previous run
    prevFetched,  \* history: the items fetched from the network in the previous run
    prevNow,      \* history: now of the previous run
    prevOutput,   \* history: the wallpaper file the previous run created, if any
    outcome,      \* history: how each goroutine ended ("valid", "stored", "failed")
    writer,       \* history: cache path -> goroutines that created it in this run
    cropped,      \* history: the items whose downloaded bitmap was cropped in this run
    wrote,        \* history: this run created its wallpaper file
    applied,      \* history: executions of the desktop picture command in this run
    drawn,        \* history: the layout algorithm that ran in this run, "none" before
    fin,          \* input of a pure function under check
    fout          \* its result

vars == <<run, now, flagSquare, onlySquare, squareTiles, drawn, build, setWallpaper, setLockScreen, desc, pc, items, item,
          cache, spawnIdx, cached, tpc, img, failedItems, mutex, seen, disk, fetches,
          laidOut, removed, unremoved, conform, prevFull, prevConform, prevFetched,
          prevNow, prevOutput, outcome, writer, cropped, wrote, applied, fin, fout>>

pureVars == <<fin, fout>>
prevVars == <<prevFull, prevConform, prevFetched, prevNow, prevOutput>>
histVars == <<fetches, laidOut, removed, unremoved, conform, prevVars>>
auditVars == <<outcome, writer, cropped, wrote, applied, drawn>>
flagVars == <<run, now, flagSquare, onlySquare, build, setWallpaper, setLockScreen, desc>>
envVars == <<flagVars, squareTiles>>
lockVars == <<mutex, seen>>
taskVars == <<cached, tpc, img, failedItems, lockVars>>

N == Len(desc)
\* filepath.Join(cacheDir, item.ID); the ID is never reassigned.
PathOf(p) == Name(desc[p].ID)

\* Mutant: the file name does not depend on the time.
wallpaperName_NoTimestamp == Wallpaper(0)

wallpaperName == Wallpaper(now)

NoImg == <<0, 0>>
NoOutput == <<"none", 0>>

\* ------------------------------------------------------------------ pure code
\* Mutant: the crop is taken at the top-left corner.
cropImage_TopLeft(dx, dy) ==
    LET ndx == IF dx < dy THEN dx ELSE dy
    IN [w |-> ndx, h |-> ndx, offx |-> 0, offy |-> 0]

\* cropImage: the new bounds and the source offset of the copy.
cropImage(dx, dy) ==
    LET ndx == IF dx < dy THEN dx ELSE dy
        ndy == IF dx < dy THEN dx ELSE dy
    IN [w |-> ndx, h |-> ndy, offx |-> GoDiv(dx - ndx, 2), offy |-> GoDiv(dy - ndy, 2)]

\* Mutant: the square branch is dropped.
imageHasCorrectSize_NoSquare(confW, confH, it, square) ==
    confW = it.Width /\ confH = it.Height

imageHasCorrectSize(confW, confH, it, square) ==
    IF square
    THEN LET size == minInt(it.Width, it.Height) IN confH = size /\ confW = size
    ELSE confW = it.Width /\ confH = it.Height

\* The goroutine's check of a cached file: open, DecodeConfig, imageHasCorrectSize.
cachedIsValid(file, it, square) ==
    IF file.kind = "absent" THEN FALSE
    ELSE IF file.kind # "jpeg" THEN FALSE
    ELSE imageHasCorrectSize(file.w, file.h, it, square)

\* drawSquareGrid: the grid's shape.
squareGridShape(n, gridCols) ==
    LET rows == ceilIntDivision(n, gridCols)
    IN [rows |-> rows, cols |-> ceilIntDivision(n, rows)]

InstagramMediaLimit == 20

\* InstagramAPI.FetchMediaItems once the response is decoded into a slice of
\* len(resp) items and capacity cap >= len(resp): a limit above
\* InstagramMediaLimit is an error; otherwise the slice expression
\* media.Items[:limit] panics when limit exceeds the capacity, and the loop
\* panics on the first nil element when limit exceeds the length.
InstagramFetchMediaItems(limit, resp, cap) ==
    IF limit > InstagramMediaLimit
    THEN [kind |-> "error", items |-> <<>>]
    ELSE IF limit > cap
    THEN [kind |-> "panic", items |-> <<>>]
    ELSE IF limit > Len(resp)
    THEN [kind |-> "panic", items |-> <<>>]
    ELSE [kind |-> "ok", items |-> SubSeq(resp, 1, limit)]

\* Mutant: rows and columns are swapped.
tileOrigin_Transposed(col, row, pw, ph) == <<row * pw, col * ph>>

\* drawBackgroundPattern: the destination point of the tile at (col, row).
tileOrigin(col, row, pw, ph) == <<col * pw, row * ph>>

\* drawBackgroundPattern: the rectangles painted on a W x H canvas with a
\* pw x ph pattern, in painting order (row by row).
drawBackgroundPattern(W, H, pw, ph) ==
    LET cols == ceilIntDivision(W, pw)
        rows == ceilIntDivision(H, ph)
    IN [k \in 1..(rows * cols) |->
           LET dp == tileOrigin((k - 1) % cols, (k - 1) \div cols, pw, ph)
           IN [x |-> dp[1], y |-> dp[2], w |-> pw, h |-> ph]]

\* resize.Resize(w, 0, img): the height that keeps the aspect ratio
\* (nfnt/resize: uint(0.7 + oldHeight / (oldWidth / w))).
aspectHeight(imgW, imgH, w) == (10 * imgH * w + 7 * imgW) \div (10 * imgW)

\* The bounds of the bitmap drawn by drawSquareGrid: resized to gridSize wide,
\* keeping the aspect ratio, only if its width differs from gridSize.
squareRenderedSize(imgW, imgH, gridSize) ==
    IF imgW # gridSize
    THEN [w |-> gridSize, h |-> aspectHeight(imgW, imgH, gridSize)]
    ELSE [w |-> imgW, h |-> imgH]

\* Mutant: the grid is filled row by row.
nextCell_RowMajor(row, col, rows, cols) ==
    IF col + 1 = cols THEN [row |-> row + 1, col |-> 0] ELSE [row |-> row, col |-> col + 1]

\* drawSquareGrid: the cell after (row, col): down the column, then the top
\* of the next column.
nextCell(row, col, rows, cols) ==
    IF row + 1 = rows THEN [row |-> 0, col |-> col + 1] ELSE [row |-> row + 1, col |-> col]

\* drawSquareGrid, the loop: one placement per item.
RECURSIVE placeSquares(_, _, _, _)
placeSquares(g, i, row, col) ==
    IF i > Len(g.imgs) THEN <<>>
    ELSE LET r == squareRenderedSize(g.imgs[i][1], g.imgs[i][2], g.gridSize)
             cdx == g.dx + col * (g.gridSize + g.gridSpacing)
             cdy == g.dy + row * (g.gridSize + g.gridSpacing)
             here == [item |-> i, row |-> row, col |-> col, x |-> cdx, y |-> cdy,
                      w |-> r.w, h |-> r.h,
                      target |-> [w |-> g.gridSize, h |-> g.gridSize]]
             next == nextCell(row, col, g.rows, g.cols)
         IN <<here>> \o placeSquares(g, i + 1, next.row, next.col)

drawSquareGrid(in) ==
    LET shape == squareGridShape(Len(in.imgs), in.gridCols)
        rows == shape.rows
        cols == shape.cols
        dx == GoDiv(in.outputWidth - (cols * (in.gridSize + in.gridSpacing) - in.gridSpacing), 2)
        dy == GoDiv(in.outputHeight - (rows * (in.gridSize + in.gridSpacing) - in.gridSpacing), 2)
        g == [imgs |-> in.imgs, gridSize |-> in.gridSize, gridSpacing |-> in.gridSpacing,
              rows |-> rows, cols |-> cols, dx |-> dx, dy |-> dy]
    IN [done |-> TRUE, rows |-> rows, cols |-> cols, dx |-> dx, dy |-> dy,
        warned |-> (dx < 0 \/ dy < 0),
        placed |-> placeSquares(g, 1, 0, 0)]

\* resize.Resize(0, h, img): the width that keeps the aspect ratio
\* (nfnt/resize: uint(0.7 + oldWidth / (oldHeight / h))).
aspectWidth(imgW, imgH, h) == (10 * imgW * h + 7 * imgH) \div (10 * imgH)

\* The bounds of the bitmap drawn by drawNonSquareGrid: resized to w x h
\* (w = 0: keep the aspect ratio) only if its height differs from h.
renderedSize(imgW, imgH, w, h) ==
    IF imgH # h
    THEN [w |-> IF w = 0 THEN aspectWidth(imgW, imgH, h) ELSE w, h |-> h]
    ELSE [w |-> imgW, h |-> imgH]

\* --- float64 arithmetic, as Go computes it (IEEE 754 binary64, round to
\* nearest even).  A positive value is m * 2^e with 2^52 <= m < 2^53; zero has
\* m = 0.  The 53-bit m and the intermediate results (below 2^58) are kept in
\* two limbs, hi * 2^29 + lo.
Limb == 2^29

WNat(n) == [hi |-> n \div Limb, lo |-> n % Limb]
WIsZero(x) == x.hi = 0 /\ x.lo = 0
WGeq(x, y) == x.hi > y.hi \/ (x.hi = y.hi /\ x.lo >= y.lo)
WAdd(x, y) ==
    [hi |-> x.hi + y.hi + (x.lo + y.lo) \div Limb, lo |-> (x.lo + y.lo) % Limb]
WSub(x, y) ==
    IF x.lo >= y.lo THEN [hi |-> x.hi - y.hi, lo |-> x.lo - y.lo]
    ELSE [hi |-> x.hi - y.hi - 1, lo |-> x.lo + Limb - y.lo]
WTwice(x, bit) ==
    [hi |-> 2 * x.hi + (2 * x.lo + bit) \div Limb, lo |-> (2 * x.lo + bit) % Limb]
WHalf(x) == [hi |-> x.hi \div 2, lo |-> (x.hi % 2) * (Limb \div 2) + x.lo \div 2]

\* x shifted right by d bits; sticky tells whether a one was shifted out.
RECURSIVE WShr(_, _, _)
WShr(x, d, sticky) ==
    IF d = 0 \/ WIsZero(x) THEN [w |-> x, sticky |-> sticky]
    ELSE WShr(WHalf(x), d - 1, sticky \/ x.lo % 2 = 1)

F64Zero == [m |-> WNat(0), e |-> 0]

\* The 53-bit m, followed by a round bit and a sticky flag, rounded to
\* nearest, ties to even.
F64Round(m, e, round, sticky) ==
    LET up == round = 1 /\ (sticky \/ m.lo % 2 = 1)
        m1 == IF up THEN WAdd(m, WNat(1)) ELSE m
    IN IF m1.hi >= 2^24 THEN [m |-> WHalf(m1), e |-> e + 1] ELSE [m |-> m1, e |-> e]

\* float64(n) for an int 0 <= n < 2^31: exact.
RECURSIVE F64Normal(_, _)
F64Normal(m, e) == IF m.hi >= 2^23 THEN [m |-> m, e |-> e] ELSE F64Normal(WTwice(m, 0), e - 1)
F64FromInt(n) == IF n = 0 THEN F64Zero ELSE F64Normal(WNat(n), 0)

\* x / y for x, y > 0: long division of the mantissas down to 53 bits and a
\* round bit; a non-zero remainder is the sticky flag.
RECURSIVE F64DivStep(_, _, _, _, _)
F64DivStep(q, r, k, ym, e) ==
    IF q.hi >= 2^24
    THEN F64Round(WHalf(q), e - k + 1, q.lo % 2, ~WIsZero(r))
    ELSE LET r2 == WTwice(r, 0)
         IN IF WGeq(r2, ym)
            THEN F64DivStep(WTwice(q, 1), WSub(r2, ym), k + 1, ym, e)
            ELSE F64DivStep(WTwice(q, 0), r2, k + 1, ym, e)
F64Div(x, y) ==
    IF WGeq(x.m, y.m)
    THEN F64DivStep(WNat(1), WSub(x.m, y.m), 0, y.m, x.e - y.e)
    ELSE F64DivStep(WNat(0), x.m, 0, y.m, x.e - y.e)

\* x + y for x, y >= 0: the smaller operand is aligned with two extra bits
\* and a sticky flag.
F64AddOrdered(a, b) ==
    LET s == WShr(WTwice(WTwice(b.m, 0), 0), a.e - b.e, FALSE)
        t == WAdd(WTwice(WTwice(a.m, 0), 0), s.w)
    IN IF t.hi >= 2^26
       THEN F64Round(WHalf(WHalf(WHalf(t))), a.e + 1, (t.lo \div 4) % 2,
                     s.sticky \/ t.lo % 4 # 0)
       ELSE F64Round(WHalf(WHalf(t)), a.e, (t.lo \div 2) % 2, s.sticky \/ t.lo % 2 # 0)
F64Add(x, y) ==
    IF WIsZero(x.m) THEN y
    ELSE IF WIsZero(y.m) THEN x
    ELSE IF x.e >= y.e THEN F64AddOrdered(x, y) ELSE F64AddOrdered(y, x)

\* int(x) for 0 <= x < 2^31: the fraction is dropped.
F64ToInt(x) ==
    LET w == WShr(x.m, 0 - x.e, FALSE).w
    IN w.hi * Limb + w.lo

\* Mutant: every item closes a row.
rowEnds_EveryItem(col, i, n, cols) == TRUE

\* drawNonSquareGrid, first loop: the item at index i (1-based) of n closes
\* its row when the row is full or the item is the last one.
rowEnds(col, i, n, cols) == col + 1 = cols \/ i = n

\* drawNonSquareGrid, first loop: the row heights.
RECURSIVE desiredHeights(_, _, _, _, _, _)
desiredHeights(its, i, col, aggregatedRatio, cols, desiredWidth) ==
    IF i > Len(its) THEN <<>>
    ELSE LET agg == F64Add(aggregatedRatio,
                           F64Div(F64FromInt(its[i].Width), F64FromInt(its[i].Height)))
         IN IF rowEnds(col, i, Len(its), cols)
            THEN <<F64ToInt(F64Div(F64FromInt(desiredWidth), agg))>>
                     \o desiredHeights(its, i + 1, 0, F64Zero, cols, desiredWidth)
            ELSE desiredHeights(its, i + 1, col + 1, agg, cols, desiredWidth)

\* drawNonSquareGrid, second loop: one placement per item.
RECURSIVE placeRows(_, _, _, _, _, _, _, _)
placeRows(g, hs, i, row, col, dx, dy, rowWidth) ==
    IF i > Len(g.items) THEN <<>>
    ELSE LET h == hs[row + 1]
             desiredRowWidth == g.desiredWidth + (g.cols * g.spacing) - g.spacing
             last == col = g.cols - 1 \/ i = Len(g.items)
             aw == GoDiv(h * g.imgs[i][1], g.imgs[i][2])
             pixLeft == desiredRowWidth - rowWidth - aw
             w == IF last THEN aw + pixLeft ELSE 0
             r == renderedSize(g.imgs[i][1], g.imgs[i][2], w, h)
             here == [item |-> i, row |-> row, x |-> dx, y |-> dy, w |-> r.w, h |-> r.h,
                      target |-> [w |-> w, h |-> h]]
         IN IF col + 1 = g.cols
            THEN <<here>> \o placeRows(g, hs, i + 1, row + 1, 0, g.baseDx,
                                       dy + h + g.spacing, 0)
            ELSE <<here>> \o placeRows(g, hs, i + 1, row, col + 1, dx + r.w + g.spacing,
                                       dy, rowWidth + r.w + g.spacing)

SeqSum(q) ==
    LET RECURSIVE acc(_)
        acc(k) == IF k = 0 THEN 0 ELSE q[k] + acc(k - 1)
    IN acc(Len(q))

drawNonSquareGrid(in) ==
    LET cols == in.gridCols
        rows == ceilIntDivision(Len(in.items), cols)
        desiredWidth == cols * (in.gridSize + in.gridSpacing) - in.gridSpacing
        hs == desiredHeights(in.items, 1, 0, F64Zero, cols, desiredWidth)
        aggregatedHeight == SeqSum(hs)
        baseDx == GoDiv(in.outputWidth
                          - (desiredWidth + cols * in.gridSpacing - in.gridSpacing), 2)
        dy == GoDiv(in.outputHeight
                      - (aggregatedHeight + rows * in.gridSpacing - in.gridSpacing), 2)
        g == [items |-> in.items, imgs |-> in.imgs, cols |-> cols, spacing |-> in.gridSpacing,
              desiredWidth |-> desiredWidth, baseDx |-> baseDx]
    IN [done |-> TRUE, rows |-> rows, heights |-> hs, baseDx |-> baseDx, dy |-> dy,
        placed |-> placeRows(g, hs, 1, 0, 0, baseDx, dy, 0)]

\* removeItem on a slice arr[1..len] sharing its backing array: the tail is
\* shifted left over the removed slot; the slot at len keeps its old value.
removeItem(arr, len, p) ==
    LET hits == {i \in 1..len : arr[i] = p}
    IN IF hits = {} THEN [arr |-> arr, len |-> len]
       ELSE LET i == SetMin(hits)
            IN [arr |-> [k \in 1..Len(arr) |->
                            IF k >= i /\ k < len THEN arr[k + 1] ELSE arr[k]],
                len |-> len - 1]

RECURSIVE removeFailed(_, _, _)
removeFailed(arr, len, failed) ==
    IF failed = <<>> THEN [arr |-> arr, len |-> len]
    ELSE LET r == removeItem(arr, len, Head(failed))
         IN removeFailed(r.arr, r.len, Tail(failed))

\* A remote bitmap matches its descriptor when validation of the stored file
\* against the descriptor would succeed.
Conforms(bm, d, square) ==
    IF square THEN minInt(bm[1], bm[2]) = minInt(d.Width, d.Height)
    ELSE bm[1] = d.Width /\ bm[2] = d.Height

\* ------------------------------------------------------------------ Init
RunStart ==
    /\ pc = "fetch"
    /\ items = <<>>
    /\ item = <<>>
    /\ cache = {}
    /\ spawnIdx = 0
    /\ cached = [p \in 1..N |-> FALSE]
    /\ tpc = [p \in 1..N |-> "idle"]
    /\ img = [p \in 1..N |-> NoImg]
    /\ failedItems = <<>>
    /\ mutex = 0
    /\ seen = [p \in 1..N |-> <<>>]
    /\ fetches = [p \in 1..N |-> 0]
    /\ laidOut = <<>>
    /\ removed = {}
    /\ unremoved = {}
    /\ conform = TRUE
    /\ outcome = [p \in 1..N |-> "none"]
    /\ writer = [f \in Names |-> {}]
    /\ cropped = {}
    /\ wrote = FALSE
    /\ applied = 0
    /\ drawn = "none"

\* Identifiers returned by the source for n items: pairwise distinct ...
UniqueIds(n) == {[p \in 1..n |-> p]}
\* ... or whatever the pages hold: TumblrAPI.FetchMediaItems appends the posts
\* of successive offset pages as they come, so a post that is published
\* between two page requests shifts the blog and the last post of one page
\* comes back as the first post of the next.
AnyIds(n) == [1..n -> 1..n]

\* The first run on a data directory, for the given ranges of the flags, the
\* build, the source's answer and the directory's content.
InitWith(Squares, Counts, DescDims, distinct, StaleFiles, OldWallpapers, Bs, Sets, Locks, Onlys) ==
    /\ run = 1
    /\ now = 1
    /\ flagSquare \in Squares
    /\ onlySquare \in Onlys
    /\ squareTiles = flagSquare
    /\ build \in Bs
    /\ setWallpaper \in Sets
    /\ setLockScreen \in Locks
    /\ build = "osx" => ~setLockScreen
    /\ \E n \in Counts : \E ds \in [1..n -> DescDims] :
       \E ids \in IF distinct THEN UniqueIds(n) ELSE AnyIds(n) :
          desc = [p \in 1..n |-> [ID |-> ids[p], Width |-> ds[p][1], Height |-> ds[p][2]]]
    /\ \E stale \in StaleFiles : \E old \in OldWallpapers :
       \E own \in [{desc[p].ID : p \in 1..N} ->
                       {Absent, Partial} \cup {Jpeg(d[1], d[2]) : d \in DescDims}] :
          disk = [f \in Names |->
                    IF f = StaleName THEN stale
                    ELSE IF f = Wallpaper(0) THEN old
                    ELSE IF f[1] = "img" /\ f[2] \in DOMAIN own THEN own[f[2]]
                    ELSE Absent]
    /\ RunStart
    /\ prevFull = FALSE
    /\ prevConform = FALSE
    /\ prevFetched = {}
    /\ prevNow = 0
    /\ prevOutput = NoOutput
    /\ fin = <<>>
    /\ fout = <<>>

\* lnx_gnome3 build invoked with -set, the source (Tumblr: not restricted to
\* square images) returning distinct identifiers.
Init ==
    InitWith(BOOLEAN, 0..MaxItems, Dims, TRUE, {Absent, Jpeg(2, 2)},
             {Absent, Jpeg(2, 2)}, {"lnx_gnome3"}, {TRUE}, {FALSE}, {FALSE})

\* ------------------------------------------------------------------ main
\* Mutant: the flag is used as given.
selectedMode_Unforced(square, only) == square

\* main: squareTiles after the check of the source's capabilities.
selectedMode(square, only) == IF ~square /\ only THEN TRUE ELSE square

\* Mutant: main goes on to downloadImages whatever the number of items.
afterFetch_AlwaysDownloads(n) == "list"

\* main: where it goes once FetchMediaItems returned n items.
afterFetch(n) == IF n = 0 THEN "nothing" ELSE "list"

\* Mutant: main goes on when the source returns no item.
FetchMediaItems_NoEarlyReturn ==
    /\ pc = "fetch"
    /\ \/ /\ pc' = "fatal"
          /\ UNCHANGED <<items, item>>
       \/ /\ items' = [i \in 1..N |-> i]
          /\ item' = desc
          /\ pc' = "list"
    /\ squareTiles' = selectedMode(squareTiles, onlySquare)
    /\ UNCHANGED <<flagVars, cache, spawnIdx, taskVars, disk, histVars, auditVars, pureVars>>

FetchMediaItems ==
    /\ pc = "fetch"
    /\ \/ /\ pc' = "fatal"
          /\ UNCHANGED <<items, item>>
       \/ /\ items' = [i \in 1..N |-> i]
          /\ item' = desc
          /\ pc' = afterFetch(N)
    /\ squareTiles' = selectedMode(squareTiles, onlySquare)
    /\ UNCHANGED <<flagVars, cache, spawnIdx, taskVars, disk, histVars, auditVars, pureVars>>

\* Mutant: the directory listing comes back empty.
cachedImages_ListsNothing ==
    /\ pc = "list"
    /\ cache' = {}
    /\ spawnIdx' = 1
    /\ pc' = "download"
    /\ UNCHANGED <<envVars, items, item, taskVars, disk, histVars, auditVars, pureVars>>

cachedImages ==
    /\ pc = "list"
    /\ \/ /\ pc' = "fatal"
          /\ UNCHANGED <<cache, spawnIdx>>
       \/ /\ cache' = Present(disk)
          /\ spawnIdx' = 1
          /\ pc' = "download"
    /\ UNCHANGED <<envVars, items, item, taskVars, disk, histVars, auditVars, pureVars>>

\* Mutant: a cached name stays in the cache map when its item is spawned.
Spawn_KeepsName ==
    /\ pc = "download"
    /\ spawnIdx <= Len(items)
    /\ LET p == items[spawnIdx]
           c == PathOf(p) \in cache
       IN /\ cached' = [cached EXCEPT ![p] = c]
          /\ tpc' = [tpc EXCEPT ![p] = IF c THEN "check" ELSE "get"]
    /\ spawnIdx' = spawnIdx + 1
    /\ UNCHANGED <<envVars, pc, items, item, cache, img, failedItems, lockVars, disk,
                   histVars, auditVars, pureVars>>

Spawn ==
    /\ pc = "download"
    /\ spawnIdx <= Len(items)
    /\ LET p == items[spawnIdx]
           c == PathOf(p) \in cache
       IN /\ cached' = [cached EXCEPT ![p] = c]
          /\ cache' = cache \ {PathOf(p)}
          /\ tpc' = [tpc EXCEPT ![p] = IF c THEN "check" ELSE "get"]
    /\ spawnIdx' = spawnIdx + 1
    /\ UNCHANGED <<envVars, pc, items, item, img, failedItems, lockVars, disk, histVars,
                   auditVars, pureVars>>

\* ------------------------------------------------------------------ goroutine
\* Mutant: the cached file is downloaded again whatever the check finds.
CheckCached_AlwaysDownloads(p) ==
    /\ tpc[p] = "check"
    /\ tpc' = [tpc EXCEPT ![p] = "get"]
    /\ UNCHANGED <<envVars, pc, items, item, cache, spawnIdx, cached, img, failedItems,
                   lockVars, disk, histVars, auditVars, pureVars>>

CheckCached(p) ==
    /\ tpc[p] = "check"
    /\ LET ok == cachedIsValid(disk[PathOf(p)], item[p], squareTiles)
       IN /\ tpc' = [tpc EXCEPT ![p] = IF ok THEN "done" ELSE "get"]
          /\ outcome' = [outcome EXCEPT ![p] = IF ok THEN "valid" ELSE @]
    /\ UNCHANGED <<envVars, pc, items, item, cache, spawnIdx, cached, img, failedItems,
                   lockVars, disk, histVars, writer, cropped, wrote, applied, drawn, pureVars>>

\* Mutant: the item takes the bounds of whatever bitmap was downloaded.
downloadedItem_AlwaysUpdates(it, bm, square) ==
    [it EXCEPT !.Width = bm[1], !.Height = bm[2]]

\* downloadImage: the item after the bitmap bm was decoded.
downloadedItem(it, bm, square) ==
    IF square /\ bm[1] # bm[2]
    THEN LET c == cropImage(bm[1], bm[2]) IN [it EXCEPT !.Width = c.w, !.Height = c.h]
    ELSE it

\* downloadImage up to the crop: http.Get, image.Decode, cropImage.
HttpGet(p) ==
    /\ tpc[p] = "get"
    /\ fetches' = [fetches EXCEPT ![p] = @ + 1]
    /\ \/ /\ tpc' = [tpc EXCEPT ![p] = "failed"]
          /\ outcome' = [outcome EXCEPT ![p] = "failed"]
          /\ UNCHANGED <<img, item, conform, cropped>>
       \/ \E bm \in Dims :
             LET crop == squareTiles /\ bm[1] # bm[2]
                 c == cropImage(bm[1], bm[2])
             IN /\ img' = [img EXCEPT ![p] = IF crop THEN <<c.w, c.h>> ELSE bm]
                /\ item' = [item EXCEPT ![p] = downloadedItem(@, bm, squareTiles)]
                /\ conform' = (conform /\ Conforms(bm, desc[p], squareTiles))
                /\ cropped' = IF crop THEN cropped \cup {p} ELSE cropped
                /\ tpc' = [tpc EXCEPT ![p] = "create"]
                /\ UNCHANGED outcome
    /\ UNCHANGED <<envVars, pc, items, cache, spawnIdx, cached, failedItems, lockVars, disk,
                   laidOut, removed, unremoved, prevVars, writer, wrote, applied, drawn, pureVars>>

\* os.Create: creates or truncates the file at the final cache path.
CreateFile(p) ==
    /\ tpc[p] = "create"
    /\ \/ /\ tpc' = [tpc EXCEPT ![p] = "failed"]
          /\ outcome' = [outcome EXCEPT ![p] = "failed"]
          /\ img' = [img EXCEPT ![p] = NoImg]
          /\ UNCHANGED <<disk, writer>>
       \/ /\ disk' = [disk EXCEPT ![PathOf(p)] = Partial]
          /\ writer' = [writer EXCEPT ![PathOf(p)] = @ \cup {p}]
          /\ tpc' = [tpc EXCEPT ![p] = "encode"]
          /\ UNCHANGED <<img, outcome>>
    /\ UNCHANGED <<envVars, pc, items, item, cache, spawnIdx, cached, failedItems, lockVars,
                   histVars, cropped, wrote, applied, drawn, pureVars>>

EncodeFile(p) ==
    /\ tpc[p] = "encode"
    /\ \/ /\ tpc' = [tpc EXCEPT ![p] = "failed"]
          /\ outcome' = [outcome EXCEPT ![p] = "failed"]
          /\ UNCHANGED disk
       \/ /\ disk' = [disk EXCEPT ![PathOf(p)] = Jpeg(img[p][1], img[p][2])]
          /\ outcome' = [outcome EXCEPT ![p] = "stored"]
          /\ tpc' = [tpc EXCEPT ![p] = "done"]
    /\ img' = [img EXCEPT ![p] = NoImg]
    /\ UNCHANGED <<envVars, pc, items, item, cache, spawnIdx, cached, failedItems, lockVars,
                   histVars, writer, cropped, wrote, applied, drawn, pureVars>>

\* Mutant: Lock returns although another goroutine holds the mutex.
MutexFree_NoExclusion == TRUE

MutexFree == mutex = 0

\* mutex.Lock(), then the read of failedItems that append starts with.
Lock(p) ==
    /\ tpc[p] = "failed"
    /\ MutexFree
    /\ mutex' = p
    /\ seen' = [seen EXCEPT ![p] = failedItems]
    /\ tpc' = [tpc EXCEPT ![p] = "locked"]
    /\ UNCHANGED <<envVars, pc, items, item, cache, spawnIdx, cached, img, failedItems,
                   disk, histVars, auditVars, pureVars>>

\* Mutant: the mutex is never unlocked.
RecordFailure_NoUnlock(p) ==
    /\ tpc[p] = "locked"
    /\ failedItems' = Append(seen[p], p)
    /\ seen' = [seen EXCEPT ![p] = <<>>]
    /\ tpc' = [tpc EXCEPT ![p] = "done"]
    /\ UNCHANGED <<envVars, pc, items, item, cache, spawnIdx, cached, img, mutex, disk,
                   histVars, auditVars, pureVars>>

\* failedItems = append(failedItems, item); mutex.Unlock()
RecordFailure(p) ==
    /\ tpc[p] = "locked"
    /\ failedItems' = Append(seen[p], p)
    /\ mutex' = 0
    /\ seen' = [seen EXCEPT ![p] = <<>>]
    /\ tpc' = [tpc EXCEPT ![p] = "done"]
    /\ UNCHANGED <<envVars, pc, items, item, cache, spawnIdx, cached, img, disk, histVars,
                   auditVars, pureVars>>

\* ------------------------------------------------------------------ after the join
\* dls.Wait() returns once every goroutine added has called Done.
\* Mutant: the join does not wait for the goroutines.
JoinReady_NoWait == spawnIdx > Len(items)

JoinReady == spawnIdx > Len(items) /\ \A p \in 1..N : tpc[p] = "done"

Wait ==
    /\ pc = "download"
    /\ JoinReady
    /\ pc' = "evict"
    /\ UNCHANGED <<envVars, items, item, cache, spawnIdx, taskVars, disk, histVars,
                   auditVars, pureVars>>

\* One iteration of the loop over the names left in cache (map order).
Evict ==
    /\ pc = "evict"
    /\ \E f \in cache :
          /\ cache' = cache \ {f}
          /\ \/ /\ disk' = [disk EXCEPT ![f] = Absent]
                /\ removed' = removed \cup {f}
                /\ UNCHANGED unremoved
             \/ /\ unremoved' = unremoved \cup {f}
                /\ UNCHANGED <<disk, removed>>
    /\ UNCHANGED <<envVars, pc, items, item, spawnIdx, taskVars, fetches, laidOut,
                   conform, prevVars, auditVars, pureVars>>

\* The loop over failedItems; downloadImages then returns to main, whose
\* slice still has its original length over the shifted backing array.
RemoveFailedItems ==
    /\ pc = "evict"
    /\ cache = {}
    /\ items' = removeFailed(items, Len(items), failedItems).arr
    /\ pc' = "layout"
    /\ UNCHANGED <<envVars, item, cache, spawnIdx, taskVars, disk, histVars, auditVars,
                   pureVars>>

\* buildWallpaper: the drawing loop opens every item of main's slice in
\* order; the first file that cannot be opened or decoded is fatal.
DrawGrid ==
    /\ pc = "layout"
    /\ LET bad == {k \in 1..Len(items) : disk[PathOf(items[k])].kind # "jpeg"}
       IN IF bad = {}
          THEN laidOut' = items /\ pc' = "create"
          ELSE laidOut' = SubSeq(items, 1, SetMin(bad) - 1) /\ pc' = "fatal"
    /\ drawn' = IF squareTiles THEN "square" ELSE "justified"
    /\ UNCHANGED <<envVars, items, item, cache, spawnIdx, taskVars, disk, fetches,
                   removed, unremoved, conform, prevVars, outcome, writer, cropped, wrote,
                   applied, pureVars>>

CreateWallpaper ==
    /\ pc = "create"
    /\ \/ /\ pc' = "fatal"
          /\ UNCHANGED <<disk, wrote>>
       \/ /\ disk' = [disk EXCEPT ![wallpaperName] = Partial]
          /\ wrote' = TRUE
          /\ pc' = "encode"
    /\ UNCHANGED <<envVars, items, item, cache, spawnIdx, taskVars, histVars, outcome,
                   writer, cropped, applied, drawn, pureVars>>

EncodeWallpaper ==
    /\ pc = "encode"
    /\ \/ /\ pc' = "fatal"
          /\ UNCHANGED disk
       \/ /\ disk' = [disk EXCEPT ![wallpaperName] = Jpeg(2, 2)]
          /\ pc' = "set"
    /\ UNCHANGED <<envVars, items, item, cache, spawnIdx, taskVars, histVars, auditVars,
                   pureVars>>

\* systemUpdate of the build: osx runs osascript whatever the flags say;
\* lnx_gnome3 runs one gsettings command per flag that is set.  A failing
\* command is fatal in main.
systemUpdate ==
    /\ pc = "set"
    /\ LET desktop == build = "osx" \/ setWallpaper
           lock == build = "lnx_gnome3" /\ setLockScreen
       IN /\ applied' = IF desktop THEN applied + 1 ELSE applied
          /\ \/ pc' = "done"
             \/ /\ desktop \/ lock
                /\ pc' = "fatal"
    /\ UNCHANGED <<envVars, items, item, cache, spawnIdx, taskVars, disk, histVars,
                   outcome, writer, cropped, wrote, drawn, pureVars>>

\* The next invocation of the program on the same data directory, with the
\* same flags and the source returning the same descriptors.
NewRun ==
    /\ pc \in {"done", "fatal", "nothing"}
    /\ run < MaxRuns
    /\ UNCHANGED <<flagSquare, onlySquare, build, setWallpaper, setLockScreen, desc, disk,
                   pureVars>>
    /\ squareTiles' = flagSquare
    /\ drawn' = "none"
    /\ run' = run + 1
    /\ now' \in {now, now + 1}
    /\ prevFull' = (pc = "done" /\ failedItems = <<>>)
    /\ prevConform' = conform
    /\ prevFetched' = {p \in 1..N : fetches[p] > 0}
    /\ prevNow' = now
    /\ prevOutput' = IF wrote THEN wallpaperName ELSE NoOutput
    /\ pc' = "fetch"
    /\ items' = <<>>
    /\ item' = <<>>
    /\ cache' = {}
    /\ spawnIdx' = 0
    /\ cached' = [p \in 1..N |-> FALSE]
    /\ tpc' = [p \in 1..N |-> "idle"]
    /\ img' = [p \in 1..N |-> NoImg]
    /\ failedItems' = <<>>
    /\ mutex' = 0
    /\ seen' = [p \in 1..N |-> <<>>]
    /\ fetches' = [p \in 1..N |-> 0]
    /\ laidOut' = <<>>
    /\ removed' = {}
    /\ unremoved' = {}
    /\ conform' = TRUE
    /\ outcome' = [p \in 1..N |-> "none"]
    /\ writer' = [f \in Names |-> {}]
    /\ cropped' = {}
    /\ wrote' = FALSE
    /\ applied' = 0

\* One goroutine of downloadImages.
Task(p) ==
    \/ CheckCached(p)
    \/ HttpGet(p)
    \/ CreateFile(p)
    \/ EncodeFile(p)
    \/ Lock(p)
    \/ RecordFailure(p)

\* The main goroutine of one process.
Main ==
    \/ FetchMediaItems
    \/ cachedImages
    \/ Spawn
    \/ Wait
    \/ Evict
    \/ RemoveFailedItems
    \/ DrawGrid
    \/ CreateWallpaper
    \/ EncodeWallpaper
    \/ systemUpdate

Next ==
    \/ FetchMediaItems
    \/ cachedImages
    \/ Spawn
    \/ \E p \in 1..N : CheckCached(p)
    \/ \E p \in 1..N : HttpGet(p)
    \/ \E p \in 1..N : CreateFile(p)
    \/ \E p \in 1..N : EncodeFile(p)
    \/ \E p \in 1..N : Lock(p)
    \/ \E p \in 1..N : RecordFailure(p)
    \/ Wait
    \/ Evict
    \/ RemoveFailedItems
    \/ DrawGrid
    \/ CreateWallpaper
    \/ EncodeWallpaper
    \/ systemUpdate
    \/ NewRun

Spec == Init /\ [][Next]_vars

\* ------------------------------------------------------------------ scheduling
\* The Go scheduler runs every runnable goroutine, every system call of main
\* returns, and every network call returns (with a bitmap or with an error).
\* Nothing obliges anyone to start the program again.
Fairness ==
    /\ WF_vars(Main)
    /\ \A p \in 1..MaxItems : WF_vars(p \in 1..N /\ Task(p))

\* Every item is already cached as a complete 2x2 JPEG, a truncated file or
\* not at all, next to one stale file.
InitFair ==
    InitWith({FALSE}, {MaxItems}, {<<2, 2>>}, TRUE, {Jpeg(2, 2)}, {Absent},
             {"lnx_gnome3"}, {TRUE}, {FALSE}, {FALSE})

SpecFair == InitFair /\ [][Next]_vars /\ Fairness

\* The same program when the source may return an identifier more than once.
InitIds ==
    InitWith({FALSE}, {MaxItems}, {<<2, 2>>}, FALSE, {Jpeg(2, 2)}, {Absent},
             {"lnx_gnome3"}, {TRUE}, {FALSE}, {FALSE})

SpecIds == InitIds /\ [][Next]_vars

\* The same program on either build, with and without -set and
\* -set-lockscreen, for one item.
InitSetter ==
    InitWith({FALSE}, {1}, {<<2, 2>>}, TRUE, {Absent}, {Absent},
             Builds, BOOLEAN, BOOLEAN, {FALSE})

SpecSetter == InitSetter /\ [][Next]_vars

\* The same program on a cache directory that may hold a subdirectory.
InitCacheDir ==
    InitWith({FALSE}, 0..MaxItems, {<<2, 2>>}, TRUE, {Absent, Jpeg(2, 2), Dir},
             {Absent, Jpeg(2, 2)}, {"lnx_gnome3"}, {TRUE}, {FALSE}, {FALSE})

SpecCacheDir == InitCacheDir /\ [][Next]_vars

\* Either flag value, with a source restricted to square images (Instagram)
\* or not (Tumblr); one non-square item.
InitMode ==
    InitWith(BOOLEAN, {1}, {<<3, 2>>}, TRUE, {Absent}, {Absent},
             {"lnx_gnome3"}, {TRUE}, {FALSE}, BOOLEAN)

SpecMode == InitMode /\ [][Next]_vars

\* ------------------------------------------------------------------ claims: pipeline
Failed == {failedItems[k] : k \in 1..Len(failedItems)}
Fetched == [i \in 1..N |-> i]
Survivors == SelectSeq(Fetched, LAMBDA p : p \notin Failed)
LayoutDone == pc \in {"create", "encode", "set", "done"}
IsJpeg(f) == disk[f].kind = "jpeg"

\* C1: whenever downloads fail, the layout consumes exactly the fetched
\* sequence without the failed items: no failed item, no survivor twice,
\* survivors in their fetched order.
C1_LayoutConsumesSurvivors == LayoutDone => laidOut = Survivors

\* C11: with every goroutine scheduled and every network call returning, the
\* wait-for-all join completes and the run reaches a terminal state; a
\* goroutine whose download failed does not keep the join from completing.
C11_JoinCompletesRunTerminates ==
    /\ (pc = "download") ~> (pc = "evict")
    /\ (pc = "fetch") ~> (pc \in {"done", "fatal", "nothing"})
    /\ \A p \in 1..MaxItems : (p \in 1..N /\ tpc[p] = "failed") ~> (pc = "evict")

\* C11 witness: the join completed although one download failed, and another
\* goroutine stored its file.
C11_Witness ==
    /\ pc = "evict"
    /\ \E p, q \in 1..N : outcome[p] = "failed" /\ outcome[q] = "stored"

AfterJoin == pc \in {"evict", "layout", "create", "encode", "set", "done"}

\* C12: the failure list is read and appended to only by the goroutine that
\* holds the mutex, and after the join it holds exactly the items whose
\* download returned failure, each once.
C12_FailureListExact ==
    /\ \A p \in 1..N : tpc[p] = "locked" => mutex = p
    /\ AfterJoin =>
          /\ Failed = {p \in 1..N : outcome[p] = "failed"}
          /\ Len(failedItems) = Cardinality(Failed)

\* C12 witness: two downloads failed in the same join and both are recorded.
C12_Witness ==
    /\ pc = "evict"
    /\ Len(failedItems) = 2
    /\ \A p \in 1..N : outcome[p] = "failed"

\* C13: within one run no two download goroutines write the same cache path.
C13_NoTwoWriters == \A f \in Names : Cardinality(writer[f]) <= 1

\* The phases of a run in the order of main: Fetch, Download (listing the
\* cache, the goroutines, the join), Evict, Layout, Composite/Encode (the
\* output file), the setter, and the endings.
Rank(s) ==
    CASE s = "fetch" -> 0
      [] s \in {"list", "download"} -> 1
      [] s = "evict" -> 2
      [] s = "layout" -> 3
      [] s \in {"create", "encode"} -> 4
      [] s = "set" -> 5
      [] OTHER -> 6

PhasesInOrder ==
    run' = run =>
        \/ Rank(pc') = Rank(pc)
        \/ Rank(pc') = Rank(pc) + 1
        \/ pc' \in {"fatal", "nothing"} /\ Rank(pc) < 6

\* C14 (original): the phases are passed in order, none is revisited, and a
\* run ends either in success with its wallpaper file written or in a fatal
\* abort.
C14_TwoEndings ==
    [][/\ PhasesInOrder
       /\ Rank(pc') = 6 =>
             \/ pc' = "done" /\ disk'[Wallpaper(now')].kind = "jpeg"
             \/ pc' = "fatal"]_vars

\* C14 (amended): the phases are passed in order and none is revisited; a run
\* ends in success with its wallpaper file written (the source returned at
\* least one item), in a fatal abort, or, exactly when the source returned
\* no item, right after Fetch with nothing written.
C14_ThreeEndings ==
    [][/\ PhasesInOrder
       /\ Rank(pc') = 6 =>
             \/ pc' = "done" /\ disk'[Wallpaper(now')].kind = "jpeg" /\ N > 0
             \/ pc' = "fatal"
             \/ pc' = "nothing" /\ N = 0 /\ disk' = disk /\ pc \in {"fetch", "nothing"}
       /\ (pc = "fetch" /\ pc' = "list") => N > 0]_vars

\* C14 witness: a run went through every phase and ended in success.
C14_Witness ==
    /\ pc = "done"
    /\ N > 0
    /\ Len(laidOut) = N
    /\ IsJpeg(wallpaperName)

\* C15: when a run ends in a fatal abort, no wallpaper file created by that
\* run is on disk.
C15_NoOutputAfterFatal ==
    pc = "fatal" => ~(wrote /\ disk[wallpaperName].kind # "absent")

\* C16: no retries: in one run an item is fetched from the network at most
\* once, and only by a step of its own goroutine; an item whose download
\* failed is not fetched again, and an item whose cached file passes the
\* check is not fetched at all.
C16_NoRetries ==
    [][\A p \in 1..N :
          /\ fetches'[p] <= 1
          /\ fetches'[p] > fetches[p] => tpc[p] = "get" /\ tpc'[p] # "get"
          /\ (outcome[p] = "failed" /\ run' = run) => fetches'[p] = fetches[p]
          /\ (tpc[p] = "check" /\ cachedIsValid(disk[PathOf(p)], item[p], squareTiles))
                => tpc'[p] # "get"
          /\ outcome'[p] = "valid" => fetches'[p] = 0]_vars

\* C16 witness: at the join one item was fetched once and failed, another
\* was found valid in the cache and not fetched.
C16_Witness ==
    /\ pc = "evict"
    /\ \E p, q \in 1..N :
          /\ outcome[p] = "failed" /\ fetches[p] = 1
          /\ outcome[q] = "valid" /\ fetches[q] = 0

\* C17: the desktop picture command runs at most once per run, only when
\* -set was given and only after the output file was completely written.
C17_SetterOnlyOnRequest ==
    /\ applied <= 1
    /\ applied = 1 => setWallpaper /\ wrote /\ pc \in {"done", "fatal"}

\* C18 (original): two successive runs that write their output write to
\* different file names.
C18_SuccessiveRunsDifferentFiles ==
    (run >= 2 /\ prevOutput # NoOutput /\ wrote) => wallpaperName # prevOutput

\* C18 (amended): two successive runs that start in different Unix seconds
\* and write their output write to different file names.
C18_DifferentSecondsDifferentFiles ==
    (run >= 2 /\ prevOutput # NoOutput /\ wrote /\ now # prevNow)
        => wallpaperName # prevOutput

\* C18 witness: both runs wrote an output, the later one a second later.
C18_Witness ==
    /\ run >= 2
    /\ prevOutput # NoOutput
    /\ wrote
    /\ now # prevNow
    /\ IsJpeg(wallpaperName)

ItemPaths == {PathOf(p) : p \in 1..N}

\* C19: a file disappears only in the eviction loop and only if it was listed
\* and is not the file of an item of the fetch result; directories are left
\* alone; a failed removal leaves main in the loop; when the loop ends every
\* regular file that is not an item's file was removed or its removal failed.
C19_EvictsExactlyStaleFiles ==
    [][/\ \A f \in Names :
             /\ disk[f].kind = "dir" => disk'[f] = disk[f]
             /\ (disk[f].kind # "absent" /\ disk'[f].kind = "absent") =>
                   pc = "evict" /\ f \in cache /\ f \notin ItemPaths
       /\ unremoved' # unremoved => pc' = "evict" \/ run' # run
       /\ (pc = "evict" /\ pc' = "layout") =>
             /\ (removed \cup unremoved) \cap ItemPaths = {}
             /\ \A f \in Names \ ItemPaths :
                   /\ f \in removed \ unremoved => disk[f].kind = "absent"
                   /\ disk[f].kind \in {"jpeg", "partial"} => f \in unremoved]_vars

\* C19 witness: the loop is over: one stale file was removed, the removal of
\* another failed, a subdirectory is still there and so is the file of an
\* item whose download failed.
C19_Witness ==
    /\ pc = "layout"
    /\ disk[StaleName].kind = "dir"
    /\ \E f \in removed : f \notin unremoved
    /\ unremoved # {}
    /\ \E p \in 1..N : outcome[p] = "failed" /\ disk[PathOf(p)].kind # "absent"

\* C20: an item's Width/Height change at most once per run, in the step of
\* its own goroutine that decodes the download, only in square mode and only
\* when the bitmap is cropped; the new values are the bounds of the cropped
\* (square) bitmap; nothing changes them after the join.  An item that was
\* not cropped (justified mode, square bitmap, valid cached file, failed
\* fetch) keeps the dimensions of its descriptor.
C20_ItemMutatedOnlyByCrop ==
    [][(run' = run /\ Len(item) = N /\ Len(item') = N) =>
          /\ ~squareTiles => cropped' = {}
          /\ \A p \in 1..N :
                /\ item'[p] # item[p] =>
                      /\ pc = "download" /\ tpc[p] = "get" /\ tpc'[p] = "create"
                      /\ p \in cropped' \ cropped
                /\ p \in cropped' \ cropped =>
                      /\ squareTiles
                      /\ item'[p] = [ID |-> desc[p].ID, Width |-> img'[p][1],
                                      Height |-> img'[p][2]]
                      /\ item'[p].Width = item'[p].Height
                /\ p \in cropped => item'[p] = item[p]
                /\ p \notin cropped' => item'[p] = desc[p]]_vars

\* C20 witness: after the join in square mode, one item was cropped and
\* carries the crop's dimensions instead of its descriptor's, another was
\* downloaded as a square bitmap and is unchanged.
C20_Witness ==
    /\ pc = "layout"
    /\ squareTiles
    /\ \E p, q \in 1..N :
          /\ p \in cropped /\ item[p] # desc[p] /\ item[p].Width = item[p].Height
          /\ q \notin cropped /\ outcome[q] = "stored" /\ item[q] = desc[q]

WallpaperFiles == {f \in Present(disk) : f[1] = "wallpaper"}

\* C21: after a successful run in which every removal succeeded, the cache
\* directory holds exactly one wallpaper file, the one this run wrote:
\* earlier wallpapers were listed as cached files and removed as stale.
C21_OneWallpaperFile ==
    (pc = "done" /\ unremoved = {}) =>
        /\ WallpaperFiles = {wallpaperName}
        /\ wrote /\ IsJpeg(wallpaperName)
        /\ \A f \in Names : (f[1] = "wallpaper" /\ f # wallpaperName) => disk[f] = Absent

\* C21 witness: the second of two successful runs, a second later, removed
\* the wallpaper of the first and left only its own.
C21_Witness ==
    /\ pc = "done"
    /\ run >= 2
    /\ prevFull
    /\ unremoved = {}
    /\ now # prevNow
    /\ prevOutput \in removed
    /\ WallpaperFiles = {wallpaperName}

\* The tile mode of a run: square if asked for, or if the source supports
\* only square images.
RunMode == flagSquare \/ onlySquare

\* C27: the tile mode is selected once per run, before the first download
\* task starts (forced to square when the source supports only square
\* images), and does not change afterwards: the crop decision of every
\* download task, the cache validity check and the layout algorithm of a run
\* all use that mode.
C27_ModeSelectedOnce ==
    [][/\ pc = "fetch" =>
            /\ \A p \in 1..N : tpc[p] = "idle"
            /\ pc' # "fetch" => squareTiles' = RunMode
       /\ (pc # "fetch" /\ run' = run) => squareTiles' = squareTiles /\ squareTiles = RunMode
       /\ \A p \in 1..N :
            /\ (tpc[p] = "check" /\ tpc'[p] # "check") =>
                   (tpc'[p] = "done"
                      <=> cachedIsValid(disk[PathOf(p)], item[p], RunMode))
            /\ (tpc[p] = "get" /\ tpc'[p] = "create") =>
                   /\ (p \in cropped' /\ p \notin cropped) => RunMode
                   /\ RunMode => img'[p][1] = img'[p][2]
                   /\ ~RunMode => item'[p] = item[p] /\ p \notin cropped'
       /\ drawn' # drawn =>
            \/ run' # run /\ drawn' = "none"
            \/ drawn = "none" /\ drawn' = (IF RunMode THEN "square" ELSE "justified")
      ]_vars

\* C27 witness: a run without -square on a source that supports only square
\* images: the downloaded bitmap was cropped and the square layout ran.
C27_Witness ==
    /\ ~flagSquare /\ onlySquare /\ squareTiles
    /\ pc = "done"
    /\ cropped = {1}
    /\ drawn = "square"

\* C28: a cache entry found valid for its item is left unchanged for the rest
\* of the run, and a file of the cache is written only for an item whose own
\* entry was missing or found invalid.
C28_ValidEntryUntouched ==
    [][run' = run =>
         /\ \A p \in 1..N :
               outcome[p] = "valid" => disk'[PathOf(p)] = disk[PathOf(p)]
         /\ \A f \in ItemPaths :
               disk'[f] # disk[f] =>
                  \E p \in 1..N : /\ PathOf(p) = f
                                  /\ tpc[p] \in {"create", "encode"}
                                  /\ outcome[p] # "valid"
      ]_vars

C2_WritesAllOrNothing ==
    [][\A p \in 1..N : disk'[PathOf(p)] # disk[PathOf(p)] => disk'[PathOf(p)].kind # "partial"]_vars

\* C3 (original): after a completed run the files in the cache directory are
\* exactly the identifiers of the run's items.
C3_CacheIsExactlyItems == pc = "done" => Present(disk) = {PathOf(p) : p \in 1..N}

\* C3 (amended): after a completed run the cache directory holds the run's
\* wallpaper; every other file is an item of the run or a stale file whose
\* removal failed; every listed stale file was removed or its removal failed;
\* every item whose task did not fail has a complete entry.  With no failed
\* download and no failed removal the directory is exactly the item
\* identifiers plus the wallpaper.
C3_CacheAfterRun ==
    pc = "done" =>
        /\ IsJpeg(wallpaperName)
        /\ Present(disk) \subseteq {PathOf(p) : p \in 1..N} \cup unremoved \cup {wallpaperName}
        /\ \A f \in removed : f # wallpaperName => disk[f].kind = "absent"
        /\ \A p \in 1..N : p \notin Failed => IsJpeg(PathOf(p))
        /\ (Failed = {} /\ unremoved = {}) =>
              Present(disk) = {PathOf(p) : p \in 1..N} \cup {wallpaperName}

\* C3 witness: the scenario's run: a stale file was deleted, one item was
\* kept from the cache and another newly downloaded.
C3_Witness ==
    /\ pc = "done"
    /\ N >= 2
    /\ StaleName \in removed
    /\ Failed = {} /\ unremoved = {}
    /\ \E p, q \in 1..N : fetches[p] = 0 /\ cached[p] /\ fetches[q] = 1 /\ ~cached[q]

\* C4 (original): a run that follows a fully successful run with the same
\* descriptors and tile mode fetches nothing from the network.
C4_SecondRunFetchesNothing ==
    (run >= 2 /\ prevFull) => \A p \in 1..N : fetches[p] = 0

\* C4 (amended): ... provided every bitmap downloaded in the previous run had
\* the dimensions of its descriptor (in square mode: the descriptor's shorter
\* edge as its own shorter edge).
C4_SecondRunFetchesNothingIfConform ==
    (run >= 2 /\ prevFull /\ prevConform) => \A p \in 1..N : fetches[p] = 0

\* C4 witness: the second run is over, in square mode, and an item with a
\* non-square descriptor was downloaded (and cropped) in the first run.
C4_Witness ==
    /\ run = 2 /\ prevFull /\ prevConform /\ pc = "done"
    /\ squareTiles
    /\ \E p \in prevFetched : desc[p].Width # desc[p].Height /\ cached[p]

\* C6: at the end of a run every cache entry of an item of the run is a
\* complete image of the item's size; no stale-size and no partial entry
\* survives, also when the replacing download failed.  An entry counts as
\* valid here if its dimensions are the item's current ones or if the
\* program's own check accepts it, and only runs in which every downloaded
\* bitmap matched its descriptor are considered.
C6_EntriesValidAtRunEnd ==
    (pc = "done" /\ conform) =>
        \A p \in 1..N :
            disk[PathOf(p)].kind # "absent" =>
                /\ IsJpeg(PathOf(p))
                /\ \/ disk[PathOf(p)].w = item[p].Width /\ disk[PathOf(p)].h = item[p].Height
                   \/ cachedIsValid(disk[PathOf(p)], item[p], squareTiles)

\* C10: eviction, layout, compositing and output run only after every
\* download task has returned, success or failure.
C10_AfterJoinAllTasksReturned ==
    pc \in {"evict", "layout", "create", "encode", "set", "done"} =>
        \A p \in 1..N : tpc[p] = "done"

\* C10 witness: eviction is about to start after one task failed and
\* another one downloaded its file.
C10_Witness ==
    /\ pc = "evict"
    /\ \E p, q \in 1..N : p \in Failed /\ q \notin Failed /\ fetches[q] = 1

\* ------------------------------------------------------------------ pure functions
pipeVars == <<envVars, pc, items, item, cache, spawnIdx, taskVars, disk, histVars, auditVars>>

\* No run in progress: the pipeline variables are parked.
Parked ==
    /\ run = 0 /\ now = 0 /\ squareTiles = FALSE /\ desc = <<>>
    /\ flagSquare = FALSE /\ onlySquare = FALSE /\ drawn = "none"
    /\ build = "lnx_gnome3" /\ setWallpaper = FALSE /\ setLockScreen = FALSE
    /\ pc = "parked" /\ items = <<>> /\ item = <<>> /\ cache = {} /\ spawnIdx = 0
    /\ cached = <<>> /\ tpc = <<>> /\ img = <<>> /\ failedItems = <<>>
    /\ mutex = 0 /\ seen = <<>>
    /\ disk = [f \in Names |-> Absent]
    /\ fetches = <<>> /\ laidOut = <<>> /\ removed = {} /\ unremoved = {}
    /\ conform = TRUE /\ prevFull = FALSE /\ prevConform = FALSE /\ prevFetched = {}
    /\ prevNow = 0 /\ prevOutput = NoOutput /\ outcome = <<>> /\ writer = [f \in Names |-> {}] /\ cropped = {}
    /\ wrote = FALSE /\ applied = 0

\* --- cropImage
InitCrop ==
    /\ Parked
    /\ \E d \in ((1..MaxSide) \X (1..MaxSide)) \cup {<<1000, 600>>, <<600, 1000>>} :
          fin = [W |-> d[1], H |-> d[2]]
    /\ fout = [done |-> FALSE, w |-> 0, h |-> 0, offx |-> 0, offy |-> 0]

Crop ==
    /\ ~fout.done
    /\ fout' = [done |-> TRUE] @@ cropImage(fin.W, fin.H)
    /\ UNCHANGED <<fin, pipeVars>>

SpecCrop == InitCrop /\ [][Crop]_vars

\* --- the validity check of a cached file
InitValid ==
    /\ Parked
    /\ \E sq \in BOOLEAN, iw \in 1..MaxEdge, ih \in 1..MaxEdge :
       \E f \in {Absent, Partial} \cup {Jpeg(w, h) : w \in 1..MaxEdge, h \in 1..MaxEdge} :
          fin = [square |-> sq, item |-> [Width |-> iw, Height |-> ih], file |-> f]
    /\ fout = [done |-> FALSE, valid |-> FALSE]

Validate ==
    /\ ~fout.done
    /\ fout' = [done |-> TRUE, valid |-> cachedIsValid(fin.file, fin.item, fin.square)]
    /\ UNCHANGED <<fin, pipeVars>>

SpecValid == InitValid /\ [][Validate]_vars

\* --- drawSquareGrid: rows and columns
InitSquare ==
    /\ Parked
    /\ \E n \in 1..MaxGridItems, c \in 1..MaxGridCols : fin = [n |-> n, gridCols |-> c]
    /\ fout = [done |-> FALSE, rows |-> 0, cols |-> 0]

Shape ==
    /\ ~fout.done
    /\ fout' = [done |-> TRUE] @@ squareGridShape(fin.n, fin.gridCols)
    /\ UNCHANGED <<fin, pipeVars>>

SpecSquare == InitSquare /\ [][Shape]_vars

\* --- drawNonSquareGrid
\* Item sizes: ratios 1, 3/2 and 1/2 are exact in float64, 5/3 is not.
ItemDims == {<<2, 2>>, <<3, 2>>, <<2, 4>>, <<5, 3>>}
GridSizes == {2, 4, 5}

InitJustified ==
    /\ Parked
    /\ \E n \in 1..MaxRowItems, c \in 1..MaxCols, sp \in 0..MaxSpacing, gs \in GridSizes :
       \E ds \in [1..n -> ItemDims], big \in [1..n -> BOOLEAN] :
          fin = [items |-> [i \in 1..n |-> [Width |-> ds[i][1], Height |-> ds[i][2]]],
                 imgs |-> [i \in 1..n |-> IF big[i] THEN <<2 * ds[i][1], 2 * ds[i][2]>>
                                           ELSE ds[i]],
                 gridCols |-> c, gridSize |-> gs, gridSpacing |-> sp,
                 outputWidth |-> 20, outputHeight |-> 20]
    /\ fout = [done |-> FALSE]

Justify ==
    /\ ~fout.done
    /\ fout' = drawNonSquareGrid(fin)
    /\ UNCHANGED <<fin, pipeVars>>

SpecJustified == InitJustified /\ [][Justify]_vars

\* --- drawSquareGrid: placements
\* Canvas sizes: one larger and one smaller than the grids.
Canvases == {<<40, 30>>, <<3, 4>>}
\* Cached bitmaps are squares of the tile size, of twice the tile size, or
\* alternate between the two.
BitmapPatterns == {"same", "double", "mixed"}

InitSquareGrid ==
    /\ Parked
    /\ \E n \in 1..MaxGridItems, c \in 1..MaxGridCols, sp \in 0..MaxSpacing, gs \in GridSizes :
       \E cv \in Canvases, pat \in BitmapPatterns :
          fin = [imgs |-> [i \in 1..n |->
                             IF pat = "double" \/ (pat = "mixed" /\ i % 2 = 0)
                             THEN <<2 * gs, 2 * gs>> ELSE <<gs, gs>>],
                 gridCols |-> c, gridSize |-> gs, gridSpacing |-> sp,
                 outputWidth |-> cv[1], outputHeight |-> cv[2]]
    /\ fout = [done |-> FALSE]

DrawSquares ==
    /\ ~fout.done
    /\ fout' = drawSquareGrid(fin)
    /\ UNCHANGED <<fin, pipeVars>>

SpecSquareGrid == InitSquareGrid /\ [][DrawSquares]_vars

\* --- drawBackgroundPattern
InitPattern ==
    /\ Parked
    /\ \E W \in 1..MaxCanvas, H \in 1..MaxCanvas, pw \in 1..MaxPattern, ph \in 1..MaxPattern :
          fin = [W |-> W, H |-> H, pw |-> pw, ph |-> ph]
    /\ fout = [done |-> FALSE]

Tile ==
    /\ ~fout.done
    /\ fout' = [done |-> TRUE, tiles |-> drawBackgroundPattern(fin.W, fin.H, fin.pw, fin.ph)]
    /\ UNCHANGED <<fin, pipeVars>>

SpecPattern == InitPattern /\ [][Tile]_vars

\* --- InstagramAPI.FetchMediaItems
\* The decoder's slice has the capacity of its length or some more.
InitInstagram ==
    /\ Parked
    /\ \E L \in 0..MaxLimit, k \in 0..MaxResponse, spare \in 0..1 :
          fin = [limit |-> L, resp |-> [i \in 1..k |-> i], cap |-> k + spare]
    /\ fout = [done |-> FALSE]

InstagramFetch ==
    /\ ~fout.done
    /\ fout' = [done |-> TRUE] @@ InstagramFetchMediaItems(fin.limit, fin.resp, fin.cap)
    /\ UNCHANGED <<fin, pipeVars>>

SpecInstagram == InitInstagram /\ [][InstagramFetch]_vars

\* ------------------------------------------------------------------ claims: pure functions
\* C5 (original): the check accepts a cached file iff it exists, decodes and
\* has exactly the item's width and height, in either tile mode.
C5_ValidIffExactSize ==
    fout.done =>
        (fout.valid <=> /\ fin.file.kind = "jpeg"
                        /\ fin.file.w = fin.item.Width
                        /\ fin.file.h = fin.item.Height)

\* C5 (amended): ... iff it exists, decodes and, in justified mode, has the
\* item's width and height; in square mode, is a square whose side is the
\* shorter of the item's width and height.
C5_ValidIffModeSize ==
    fout.done =>
        (fout.valid <=>
            /\ fin.file.kind = "jpeg"
            /\ IF fin.square
               THEN \E side \in {fin.item.Width, fin.item.Height} :
                       /\ side <= fin.item.Width /\ side <= fin.item.Height
                       /\ fin.file.w = side /\ fin.file.h = side
               ELSE fin.file.w = fin.item.Width /\ fin.file.h = fin.item.Height)

\* C5 witness: square mode, a non-square item and its cropped square entry,
\* judged valid.
C5_Witness ==
    /\ fout.done /\ fout.valid /\ fin.square
    /\ fin.item.Width = 3 /\ fin.item.Height = 2 /\ fin.file = Jpeg(2, 2)

\* C7: in square mode rows*cols >= N and rows*cols - N < cols.
C7_SquareGridFits ==
    fout.done =>
        /\ fout.rows * fout.cols >= fin.n
        /\ fout.rows * fout.cols - fin.n < fout.cols

\* C7 witness: 7 items and 5 requested columns give 2 rows of 4.
C7_Witness ==
    fout.done /\ fin.n = 7 /\ fin.gridCols = 5 /\ fout.rows = 2 /\ fout.cols = 4

\* C22: square-grid placement is column-major: the i-th item (0-based) is in
\* column i div rows and row i mod rows, at pixel (dx + col*(tile+spacing),
\* dy + row*(tile+spacing)); column < cols, row < rows, no cell is shared.
C22_ColumnMajor ==
    fout.done =>
        /\ Len(fout.placed) = Len(fin.imgs)
        /\ \A k \in 1..Len(fout.placed) :
              LET pl == fout.placed[k]
              IN /\ pl.item = k
                 /\ pl.col = (k - 1) \div fout.rows
                 /\ pl.row = (k - 1) % fout.rows
                 /\ pl.x = fout.dx + pl.col * (fin.gridSize + fin.gridSpacing)
                 /\ pl.y = fout.dy + pl.row * (fin.gridSize + fin.gridSpacing)
                 /\ pl.col >= 0 /\ pl.col < fout.cols
                 /\ pl.row >= 0 /\ pl.row < fout.rows
        /\ \A j, k \in 1..Len(fout.placed) :
              (fout.placed[j].row = fout.placed[k].row
                 /\ fout.placed[j].col = fout.placed[k].col) => j = k

\* C22 witness: 7 items, 5 requested columns: 2 rows of 4; the fourth item is
\* at the bottom of the second column and the seventh on top of the fourth.
C22_Witness ==
    /\ fout.done /\ Len(fin.imgs) = 7 /\ fin.gridCols = 5
    /\ fout.rows = 2 /\ fout.cols = 4
    /\ fout.placed[4].col = 1 /\ fout.placed[4].row = 1
    /\ fout.placed[7].col = 3 /\ fout.placed[7].row = 0

SetMax(S) == CHOOSE x \in S : \A y \in S : y <= x

\* The box actually occupied by the placed items.
PlacedLeft == SetMin({fout.placed[k].x : k \in 1..Len(fout.placed)})
PlacedRight == SetMax({fout.placed[k].x + fout.placed[k].w : k \in 1..Len(fout.placed)})
PlacedTop == SetMin({fout.placed[k].y : k \in 1..Len(fout.placed)})
PlacedBottom == SetMax({fout.placed[k].y + fout.placed[k].h : k \in 1..Len(fout.placed)})

\* The grid is centred: the box occupied by the items starts at
\* (canvas extent - box extent) / 2 on both axes, so that opposite margins
\* differ by at most one pixel; every item is placed, whatever the offsets' sign.
Centred ==
    /\ Len(fout.placed) = Len(fin.imgs)
    /\ PlacedLeft = GoDiv(fin.outputWidth - (PlacedRight - PlacedLeft), 2)
    /\ PlacedTop = GoDiv(fin.outputHeight - (PlacedBottom - PlacedTop), 2)
    /\ (fin.outputWidth - PlacedRight) - PlacedLeft \in {-1, 0, 1}
    /\ (fin.outputHeight - PlacedBottom) - PlacedTop \in {-1, 0, 1}

\* C23: in both layout algorithms the grid is centred on the extent actually
\* occupied by the placed items, and a negative offset still places every
\* item.  Justified layout:
C23_JustifiedGridCentred == fout.done => Centred

\* The same statement for the square layout, whose offsets may be negative.
SquareGridCentred ==
    fout.done => (Centred /\ fout.dx = PlacedLeft /\ fout.dy = PlacedTop
                  /\ (fout.warned <=> (fout.dx < 0 \/ fout.dy < 0)))

\* The exact sum of the ratios Width/Height of the items lo..hi, as a fraction.
RECURSIVE RatioSum(_, _)
RatioSum(lo, hi) ==
    IF lo > hi THEN [num |-> 0, den |-> 1]
    ELSE LET rest == RatioSum(lo + 1, hi)
         IN [num |-> fin.items[lo].Width * rest.den + rest.num * fin.items[lo].Height,
             den |-> fin.items[lo].Height * rest.den]

FirstOfRow(r) == r * fin.gridCols + 1
LastOfRow(r) == minInt(Len(fin.items), (r + 1) * fin.gridCols)

\* floor(desiredRowWidth / sum of the ratios of row r), in exact arithmetic.
ExactRowHeight(r) ==
    LET sum == RatioSum(FirstOfRow(r), LastOfRow(r))
    IN ((fin.gridCols * (fin.gridSize + fin.gridSpacing) - fin.gridSpacing) * sum.den)
           \div sum.num

\* The parts of C24 that do not depend on the height's value: rows =
\* ceil(N/C), row r holds items r*C .. min(N,(r+1)*C)-1, every item is
\* rendered at its row's height, the first item of a row is at the left
\* margin, and row r+1 starts height(r) + spacing below row r.
JustifiedRowStructure ==
    /\ fout.rows = ceilIntDivision(Len(fin.items), fin.gridCols)
    /\ Len(fout.heights) = fout.rows
    /\ Len(fout.placed) = Len(fin.items)
    /\ \A k \in 1..Len(fout.placed) :
          LET pl == fout.placed[k]
          IN /\ pl.item = k
             /\ pl.row = (k - 1) \div fin.gridCols
             /\ pl.row < fout.rows
             /\ k >= FirstOfRow(pl.row) /\ k <= LastOfRow(pl.row)
             /\ pl.h = fout.heights[pl.row + 1]
             /\ k = FirstOfRow(pl.row) => pl.x = fout.baseDx
             /\ pl.y = fout.dy + SeqSum([r \in 1..pl.row |-> fout.heights[r] + fin.gridSpacing])

\* C24 (original): ... and the height of row r is floor(desiredRowWidth / sum
\* of the width/height ratios of its items).
C24_RowHeightIsExactFloor ==
    fout.done =>
        /\ JustifiedRowStructure
        /\ \A r \in 0..(fout.rows - 1) : fout.heights[r + 1] = ExactRowHeight(r)

\* C24 (amended): ... and the height of row r is the integer part of the
\* float64 quotient of desiredRowWidth by the float64 sum of the float64
\* ratios, which differs from floor(desiredRowWidth / sum of the ratios) by at
\* most one.
C24_RowHeightWithinOneOfFloor ==
    fout.done =>
        /\ JustifiedRowStructure
        /\ \A r \in 0..(fout.rows - 1) :
              /\ fout.heights[r + 1] >= ExactRowHeight(r) - 1
              /\ fout.heights[r + 1] <= ExactRowHeight(r) + 1

\* C24 witness: two columns, tile 4, no spacing, three items; the first row
\* holds a 2x2 and a 5x3 item: 8 / (1 + 5/3) is exactly 3, the float64
\* quotient is just below 3 and the row is 2 high; the third item starts the
\* second row at the left margin, 2 + spacing below the first.
C24_Witness ==
    /\ fout.done /\ fin.gridCols = 2 /\ fin.gridSize = 4 /\ fin.gridSpacing = 0
    /\ Len(fin.items) = 3
    /\ fin.items[1] = [Width |-> 2, Height |-> 2]
    /\ fin.items[2] = [Width |-> 5, Height |-> 3]
    /\ fout.rows = 2
    /\ ExactRowHeight(0) = 3 /\ fout.heights[1] = 2
    /\ fout.placed[2].h = 2
    /\ fout.placed[3].row = 1 /\ fout.placed[3].x = fout.baseDx
    /\ fout.placed[3].y = fout.placed[1].y + 2

\* C25: every placement copies a bitmap of exactly the placement's target
\* size: the row height, and for the last item of a row the stretched width
\* that absorbs the row's remaining pixels, for the other items the width
\* that keeps the aspect ratio.  Justified layout:
C25_RenderedAtTargetSize ==
    fout.done =>
        \A k \in 1..Len(fout.placed) :
            LET pl == fout.placed[k]
            IN /\ pl.h = pl.target.h
               /\ IF pl.target.w # 0
                  THEN pl.w = pl.target.w
                  ELSE pl.w = aspectWidth(fin.imgs[k][1], fin.imgs[k][2], pl.target.h)

\* The same statement for the square layout: every tile is gridSize x gridSize.
SquareRenderedAtTargetSize ==
    fout.done =>
        \A k \in 1..Len(fout.placed) :
            /\ fout.placed[k].w = fin.gridSize
            /\ fout.placed[k].h = fin.gridSize

\* C26: pattern background: tiles are painted at the origins (col*pw, row*ph)
\* for col < ceil(W/pw) and row < ceil(H/ph), starting at (0,0); every canvas
\* pixel is covered by a tile and no tile lies entirely outside the canvas.
C26_PatternCoversCanvas ==
    fout.done =>
        LET origins == {<<fout.tiles[k].x, fout.tiles[k].y>> : k \in 1..Len(fout.tiles)}
            cols == (fin.W + fin.pw - 1) \div fin.pw
            rows == (fin.H + fin.ph - 1) \div fin.ph
        IN /\ fout.tiles[1].x = 0 /\ fout.tiles[1].y = 0
           /\ origins = {<<c * fin.pw, r * fin.ph>> : c \in 0..(cols - 1), r \in 0..(rows - 1)}
           /\ Len(fout.tiles) = rows * cols
           /\ \A x \in 0..(fin.W - 1), y \in 0..(fin.H - 1) :
                 \E k \in 1..Len(fout.tiles) :
                    /\ fout.tiles[k].x <= x /\ x < fout.tiles[k].x + fout.tiles[k].w
                    /\ fout.tiles[k].y <= y /\ y < fout.tiles[k].y + fout.tiles[k].h
           /\ \A k \in 1..Len(fout.tiles) :
                 /\ fout.tiles[k].x < fin.W /\ fout.tiles[k].y < fin.H
                 /\ fout.tiles[k].w = fin.pw /\ fout.tiles[k].h = fin.ph

\* C26 witness: a 5x4 canvas and a 2x3 pattern: 3 columns and 2 rows; the
\* last tile starts at (4,3) and is clipped on both axes.
C26_Witness ==
    /\ fout.done /\ fin.W = 5 /\ fin.H = 4 /\ fin.pw = 2 /\ fin.ph = 3
    /\ Len(fout.tiles) = 6
    /\ fout.tiles[2].x = 2 /\ fout.tiles[2].y = 0
    /\ fout.tiles[6].x = 4 /\ fout.tiles[6].y = 3

\* C30: Instagram source: for a limit L <= 20 and a response of k items the
\* fetch returns normally with the first min(L, k) items in response order;
\* for L > 20 it returns an error and no items.
C30_LimitNeverCrashes ==
    fout.done =>
        IF fin.limit <= 20
        THEN /\ fout.kind = "ok"
             /\ fout.items = SubSeq(fin.resp, 1, minInt(fin.limit, Len(fin.resp)))
        ELSE fout.kind = "error" /\ fout.items = <<>>

\* C8: in justified mode the rendered widths of every row plus the spacing
\* between neighbours add up to C*(tile+spacing) - spacing.
RowOf(r) == SelectSeq(fout.placed, LAMBDA pl : pl.row = r)
RowExtent(r) ==
    SeqSum([k \in 1..Len(RowOf(r)) |-> RowOf(r)[k].w]) + (Len(RowOf(r)) - 1) * fin.gridSpacing
C8_RowsHaveDesiredWidth ==
    fout.done =>
        \A r \in 0..(fout.rows - 1) :
            RowExtent(r) = fin.gridCols * (fin.gridSize + fin.gridSpacing) - fin.gridSpacing

\* C9: the crop of a W x H bitmap is the square of side min(W,H) at offset
\* (max(W,H) - min(W,H)) / 2 on the longer axis and 0 on the shorter one.
C9_CenterCrop ==
    fout.done =>
        LET lo == IF fin.W <= fin.H THEN fin.W ELSE fin.H
            hi == IF fin.W <= fin.H THEN fin.H ELSE fin.W
        IN /\ fout.w = lo /\ fout.h = lo
           /\ IF fin.W >= fin.H
              THEN fout.offx = (hi - lo) \div 2 /\ fout.offy = 0
              ELSE fout.offy = (hi - lo) \div 2 /\ fout.offx = 0

\* C9 witness: 1000x600 gives 600x600 at x-offset 200, y-offset 0.
C9_Witness ==
    /\ fout.done /\ fin.W = 1000 /\ fin.H = 600
    /\ fout.w = 600 /\ fout.h = 600 /\ fout.offx = 200 /\ fout.offy = 0

====
